---- MODULE Spec2Model ----
(***************************************************************************)
(* The selection state machine of RowNode (src/ts/entities/rowNode.ts):    *)
(* a tree of row nodes with a three-valued `selected` field, the           *)
(* setSelectedParams entry point with its child propagation, group         *)
(* aggregation and shift-range selection, and the events it dispatches;    *)
(* and one row node's own state: its setters, data and id updates,         *)
(* aggregate data, listener registry and the local and global events.      *)
(***************************************************************************)
EXTENDS Integers, Sequences, FiniteSets, TLC

\* Number of row nodes below the root node.
NumNodes == 4

\* The JavaScript `undefined` / `null` of a node reference or of an id.
Undefined == -1
\* The JavaScript NaN that `updatedCount += undefined` produces.
NaN == -2

\* The root node, parent of the top level nodes.
Root == 0
Rows == 1..NumNodes
Nodes == 0..NumNodes

\* The three values of RowNode.selected (undefined means mixed).
SelTrue == "true"
SelFalse == "false"
Mixed == "undefined"
SelectedValues == {SelTrue, SelFalse, Mixed}

\* RowNode.floating: Constants.FLOATING_TOP, FLOATING_BOTTOM, or not set.
FloatingTop == "top"
FloatingBottom == "bottom"
NotFloating == ""

\* IRowModel.getType()
RowModelNormal == "normal"
RowModelOther == "viewport"

\* A children list that is not there (childrenAfterFilter === undefined).
Missing == <<Undefined>>

VARIABLES
    id,                   \* RowNode.id: a number, or Undefined
    floating,             \* RowNode.floating
    group,                \* RowNode.group
    footer,               \* RowNode.footer
    sibling,              \* RowNode.sibling
    parent,               \* RowNode.parent
    childrenAfterGroup,   \* RowNode.childrenAfterGroup
    childrenAfterFilter,  \* RowNode.childrenAfterFilter
    childrenAfterSort,    \* RowNode.childrenAfterSort
    selected,             \* RowNode.selected
    groupSelectsChildren, \* gridOptionsWrapper.isGroupSelectsChildren()
    rowSelectionMulti,    \* gridOptionsWrapper.isRowSelectionMulti()
    rowModelType,         \* rowModel.getType()
    lastSelectedNode,     \* the selection controller's anchor
    pc,                   \* the caller: "ready" to call, or holding a "returned" call
    call,                 \* the call that returned: node, params, ret, log
    before,               \* selected and lastSelectedNode on entry of that call
    earlier,              \* the call the caller made right before it, if it made two
    node,                 \* one RowNode object: its fields and its eventService
    getRowNodeIdFunc,     \* gridOptionsWrapper.getRowNodeIdFunc() is configured
    nodeCall,             \* the last operation called on node: op, args, log
    nodeBefore,           \* node on entry of that operation
    calls                 \* the number of operations called on node so far

tree == <<id, floating, group, footer, sibling, parent,
          childrenAfterGroup, childrenAfterFilter, childrenAfterSort>>
options == <<groupSelectsChildren, rowSelectionMulti, rowModelType>>
nodeVars == <<node, getRowNodeIdFunc, nodeCall, nodeBefore, calls>>
vars == <<tree, options, selected, lastSelectedNode, pc, call, before, earlier, nodeVars>>

\* SetSelectedParams; a flag left out by the caller reads as false (=== true).
Params == [newValue: BOOLEAN, clearSelection: BOOLEAN,
           tailingNodeInSequence: BOOLEAN, rangeSelect: BOOLEAN,
           groupSelectsFiltered: BOOLEAN]

\* What the event bus and the selection controller receive during one call.
RowSelectedEvent(n, value) == [type |-> "rowSelected", node |-> n, value |-> value]
\* The selection changed event, with the tree its listeners observe.
SelectionChangedEvent(sel) == [type |-> "selectionChanged", node |-> Undefined, value |-> sel]
ClearOtherNodesCall(n) == [type |-> "clearOtherNodes", node |-> n, value |-> Undefined]
SetLastSelectedNodeCall(n) == [type |-> "setLastSelectedNode", node |-> n, value |-> Undefined]

\* x + y of JavaScript numbers, where either may be NaN.
Add(x, y) == IF x = NaN \/ y = NaN THEN NaN ELSE x + y

\* The boolean newValue as a value of `selected`.
ToSelected(b) == IF b THEN SelTrue ELSE SelFalse

RECURSIVE isSelected(_, _)
RECURSIVE calculateSelectedFromChildrenBubbleUp(_, _)
RECURSIVE depthFirstSearch(_, _)
RECURSIVE depthFirstSearchChildren(_, _, _)
RECURSIVE calculatedSelectedForTopLevelNodes(_, _, _)
RECURSIVE setSelectedParams(_, _, _)
RECURSIVE selectChildNodesFrom(_, _, _, _, _)
RECURSIVE clearOtherNodesFrom(_, _, _, _)
RECURSIVE walkNodes(_, _)
RECURSIVE rangeSelectionFrom(_, _, _, _)
RECURSIVE isParentOfNode(_, _)

\* isSelected(): a footer answers with its sibling's state.
isSelected(sel, n) ==
    IF footer[n] THEN isSelected(sel, sibling[n]) ELSE sel[n]

\* selectThisNode without its early return on an unchanged value.
selectThisNodeAlways(st, n, newValue) ==
    [st |-> [st EXCEPT !.selected[n] = newValue,
                       !.log = Append(@, RowSelectedEvent(n, newValue))],
     changed |-> TRUE]

\* selectThisNode(newValue): assigns, dispatches row selected, tells if it changed.
selectThisNode(st, n, newValue) ==
    IF st.selected[n] = newValue
    THEN [st |-> st, changed |-> FALSE]
    ELSE [st |-> [st EXCEPT !.selected[n] = newValue,
                            !.log = Append(@, RowSelectedEvent(n, newValue))],
          changed |-> TRUE]

\* selectedFromChildren looking at the mixed children last.
selectedFromChildrenMixedLast(sel, n) ==
    LET children == childrenAfterGroup[n]
        states == IF children = Missing THEN {}
                  ELSE {isSelected(sel, children[i]) : i \in 1..Len(children)}
    IN  IF SelTrue \in states /\ SelFalse \notin states THEN SelTrue
        ELSE IF SelTrue \notin states /\ SelFalse \in states THEN SelFalse
        ELSE Mixed

\* The value calculateSelectedFromChildren() computes from childrenAfterGroup.
selectedFromChildren(sel, n) ==
    LET children == childrenAfterGroup[n]
        states == IF children = Missing THEN {}
                  ELSE {isSelected(sel, children[i]) : i \in 1..Len(children)}
        atLeastOneSelected == SelTrue \in states
        atLeastOneDeSelected == SelFalse \in states
        atLeastOneMixed == Mixed \in states
    IN  IF atLeastOneMixed THEN Mixed
        ELSE IF atLeastOneSelected /\ ~atLeastOneDeSelected THEN SelTrue
        ELSE IF ~atLeastOneSelected /\ atLeastOneDeSelected THEN SelFalse
        ELSE Mixed

calculateSelectedFromChildren(st, n) ==
    selectThisNode(st, n, selectedFromChildren(st.selected, n)).st

\* if (this.parent) this.parent.calculateSelectedFromChildrenBubbleUp()
bubbleUpToParent(st, n) ==
    IF parent[n] # Undefined
    THEN calculateSelectedFromChildrenBubbleUp(st, parent[n])
    ELSE st

calculateSelectedFromChildrenBubbleUp(st, n) ==
    bubbleUpToParent(calculateSelectedFromChildren(st, n), n)

\* depthFirstSearch(callback) with the callback of calculatedSelectedForAllGroupNodes:
\* the children first, then the node itself.
depthFirstSearchChildren(st, children, i) ==
    IF i > Len(children) THEN st
    ELSE depthFirstSearchChildren(depthFirstSearch(st, children[i]), children, i + 1)

\* The callback: if (childNode.group) childNode.calculateSelectedFromChildren()
groupCallback(st, n) ==
    IF group[n] THEN calculateSelectedFromChildren(st, n) ELSE st

depthFirstSearch(st, n) ==
    groupCallback(IF childrenAfterGroup[n] # Missing
                  THEN depthFirstSearchChildren(st, childrenAfterGroup[n], 1)
                  ELSE st,
                  n)

\* InMemoryRowModel.getTopLevelNodes(): the children of the root node.
getTopLevelNodes == childrenAfterGroup[Root]

calculatedSelectedForTopLevelNodes(st, topLevelNodes, i) ==
    IF i > Len(topLevelNodes) THEN st
    ELSE LET topLevelNode == topLevelNodes[i]
             st1 == IF group[topLevelNode]
                    THEN calculateSelectedFromChildren(
                             depthFirstSearch(st, topLevelNode), topLevelNode)
                    ELSE st
         IN  calculatedSelectedForTopLevelNodes(st1, topLevelNodes, i + 1)

calculatedSelectedForAllGroupNodes(st) ==
    calculatedSelectedForTopLevelNodes(st, getTopLevelNodes, 1)

\* SelectionController.setLastSelectedNode(node)
setLastSelectedNode(st, n) ==
    [st EXCEPT !.lastSelectedNode = n, !.log = Append(@, SetLastSelectedNodeCall(n))]

\* SelectionController.clearOtherNodes(except): deselects every other selected
\* node (a group's state is derived when group selects children) and counts them.
clearOtherNodesFrom(st, except, m, count) ==
    IF m > NumNodes THEN [st |-> st, ret |-> count]
    ELSE IF m # except /\ st.selected[m] = SelTrue /\ ~(groupSelectsChildren /\ group[m])
         THEN clearOtherNodesFrom(selectThisNode(st, m, SelFalse).st, except, m + 1, count + 1)
         ELSE clearOtherNodesFrom(st, except, m + 1, count)

clearOtherNodes(st, except) ==
    clearOtherNodesFrom([st EXCEPT !.log = Append(@, ClearOtherNodesCall(except))],
                        except, Root, 0)

\* isParentOfNode answering that any node with a parent is below potentialParent.
isParentOfNodeAnyParent(n, potentialParent) == parent[n] # Undefined

\* isParentOfNode(potentialParent): potentialParent is an ancestor of n.
isParentOfNode(n, potentialParent) ==
    IF parent[n] = Undefined THEN FALSE
    ELSE IF parent[n] = potentialParent THEN TRUE
    ELSE isParentOfNode(parent[n], potentialParent)

\* InMemoryRowModel.forEachNodeAfterFilterAndSort: each node, then the sorted
\* children of a group, from the root's sorted children down.
walkNodes(nodes, i) ==
    IF nodes = Missing \/ i > Len(nodes) THEN <<>>
    ELSE LET n == nodes[i]
         IN  <<n>> \o (IF group[n] THEN walkNodes(childrenAfterSort[n], 1) ELSE <<>>)
                   \o walkNodes(nodes, i + 1)

forEachNodeAfterFilterAndSort == walkNodes(childrenAfterSort[Root], 1)

\* rowNode===lastSelectedNode || rowNode===this
isEndpointOf(rowNode, lastSelected, this) ==
    (lastSelected # Undefined /\ rowNode = lastSelected) \/ rowNode = this

\* inRange without its end: firstRowHit alone.
inRangeOfNeverCloses(firstRowHit, lastRowHit) == firstRowHit

\* let inRange = firstRowHit && !lastRowHit
inRangeOf(firstRowHit, lastRowHit) == firstRowHit /\ ~lastRowHit

\* The callback of doRowRangeSelection on the i-th traversed node and on; l holds
\* firstRowHit, lastRowHit, lastRow, updatedCount and the state.
rangeSelectionFrom(l, this, order, i) ==
    IF i > Len(order) THEN l
    ELSE LET rowNode == order[i]
             lastSelected == l.st.lastSelectedNode
             isEndpoint == isEndpointOf(rowNode, lastSelected, this)
             lookingForLastRow == l.firstRowHit /\ ~l.lastRowHit
             firstRowHit == l.firstRowHit \/ isEndpoint
             skipThisGroupNode == group[rowNode] /\ groupSelectsChildren
             inRange == inRangeOf(firstRowHit, l.lastRowHit)
             childOfLastRow == l.lastRow # Undefined /\ isParentOfNode(rowNode, l.lastRow)
             r == IF skipThisGroupNode THEN [st |-> l.st, changed |-> FALSE]
                  ELSE selectThisNode(l.st, rowNode, ToSelected(inRange \/ childOfLastRow))
             hitLast == lookingForLastRow /\ isEndpoint
         IN  rangeSelectionFrom(
                 [firstRowHit |-> firstRowHit,
                  lastRowHit |-> l.lastRowHit \/ hitLast,
                  lastRow |-> IF hitLast THEN rowNode ELSE l.lastRow,
                  updatedCount |-> IF r.changed THEN l.updatedCount + 1 ELSE l.updatedCount,
                  st |-> r.st],
                 this, order, i + 1)

\* mainEventService.dispatchEvent(Events.EVENT_SELECTION_CHANGED)
dispatchSelectionChanged(st) ==
    [st EXCEPT !.log = Append(@, SelectionChangedEvent(st.selected))]

\* After the traversal: the groups, the event and the returned count.
afterRangeSelection(l) ==
    [st |-> dispatchSelectionChanged(IF groupSelectsChildren
                                     THEN calculatedSelectedForAllGroupNodes(l.st)
                                     ELSE l.st),
     ret |-> l.updatedCount]

doRowRangeSelection(st, this) ==
    afterRangeSelection(
        rangeSelectionFrom(
            [firstRowHit |-> st.lastSelectedNode = Undefined,
             lastRowHit |-> FALSE,
             lastRow |-> Undefined,
             updatedCount |-> 0,
             st |-> st],
            this, forEachNodeAfterFilterAndSort, 1))

\* The loop of selectChildNodes over the chosen children list.
selectChildNodesFrom(st, children, newValue, i, updatedCount) ==
    IF i > Len(children) THEN [st |-> st, ret |-> updatedCount]
    ELSE LET r == setSelectedParams(st, children[i],
                      [newValue |-> newValue, clearSelection |-> FALSE,
                       tailingNodeInSequence |-> TRUE, rangeSelect |-> FALSE,
                       groupSelectsFiltered |-> FALSE])
         IN  selectChildNodesFrom(r.st, children, newValue, i + 1, Add(updatedCount, r.ret))

\* selectChildNodes: a missing list returns undefined, which the caller adds.
selectChildNodes(st, this, newValue, groupSelectsFiltered) ==
    LET children == IF groupSelectsFiltered THEN childrenAfterFilter[this]
                    ELSE childrenAfterGroup[this]
    IN  IF children = Missing THEN [st |-> st, ret |-> NaN]
        ELSE selectChildNodesFrom(st, children, newValue, 1, 0)

\* The recompute of the groups (lines 490-510).
updateGroups(st, this, groupSelectsFiltered) ==
    IF groupSelectsFiltered
    THEN calculatedSelectedForAllGroupNodes(st)
    ELSE IF groupSelectsChildren /\ parent[this] # Undefined
         THEN calculateSelectedFromChildrenBubbleUp(st, parent[this])
         ELSE st

\* The recompute of the groups without the selection changed event.
updateGroupsNoEvent(st, this, groupSelectsFiltered) ==
    updateGroups(st, this, groupSelectsFiltered)

\* The recompute of the groups and the selection changed event (lines 490-513).
updateGroupsAndFireEvents(st, this, groupSelectsFiltered) ==
    dispatchSelectionChanged(updateGroups(st, this, groupSelectsFiltered))

\* groupSelectsFiltered only makes sense when group selects children (line 438)
groupSelectsFilteredOf(params) == groupSelectsChildren /\ params.groupSelectsFiltered

\* A result of selectThisNode as a state and a count.
Counted(r) == [st |-> r.st, ret |-> IF r.changed THEN 1 ELSE 0]

\* updatedCount += the count of r
AddCount(r, updatedCount) == [st |-> r.st, ret |-> Add(updatedCount, r.ret)]

\* This node's own selection, unless it is a group skipped under
\* groupSelectsFiltered (lines 468-476).
selectOwnNode(st, this, params) ==
    IF groupSelectsFilteredOf(params) /\ group[this]
    THEN [st |-> st, ret |-> 0]
    ELSE Counted(selectThisNode(st, this, ToSelected(params.newValue)))

\* The children of a group that selects its children (lines 478-480).
selectOwnChildren(r, this, params) ==
    IF groupSelectsChildren /\ group[this]
    THEN AddCount(selectChildNodes(r.st, this, params.newValue,
                                   groupSelectsFilteredOf(params)), r.ret)
    ELSE r

\* clearOthers that clears only when clearSelection is passed.
clearOthersOnlyIfAsked(r, this, params) ==
    IF ~params.tailingNodeInSequence /\ params.newValue /\ params.clearSelection
    THEN AddCount(clearOtherNodes(r.st, this), r.ret)
    ELSE r

\* The other nodes, cleared for the original call (lines 484-488).
clearOthers(r, this, params) ==
    IF ~params.tailingNodeInSequence /\ params.newValue
          /\ (params.clearSelection \/ ~rowSelectionMulti)
    THEN AddCount(clearOtherNodes(r.st, this), r.ret)
    ELSE r

\* updateAndFire without the test of tailingNodeInSequence.
updateAndFireInTailCalls(r, this, params) ==
    IF r.ret # NaN /\ r.ret > 0
    THEN [r EXCEPT !.st = updateGroupsAndFireEvents(@, this, groupSelectsFilteredOf(params))]
    ELSE r

\* The groups and the event if anything was updated (lines 490-513).
updateAndFire(r, this, params) ==
    IF ~params.tailingNodeInSequence /\ r.ret # NaN /\ r.ret > 0
    THEN [r EXCEPT !.st = updateGroupsAndFireEvents(@, this, groupSelectsFilteredOf(params))]
    ELSE r

\* recordAnchor without the test of tailingNodeInSequence.
recordAnchorAlways(r, this, params) ==
    IF params.newValue
    THEN [r EXCEPT !.st = setLastSelectedNode(@, this)]
    ELSE r

\* The anchor of the next range selection (lines 515-518).
recordAnchor(r, this, params) ==
    IF ~params.tailingNodeInSequence /\ params.newValue
    THEN [r EXCEPT !.st = setLastSelectedNode(@, this)]
    ELSE r

\* The part of setSelectedParams after the range branch (lines 466-521).
setSelectedNoRange(st, this, params) ==
    recordAnchor(
        updateAndFire(
            clearOthers(
                selectOwnChildren(selectOwnNode(st, this, params), this, params),
                this, params),
            this, params),
        this, params)

\* setSelectedParams handing a footer's call to the sibling before the checks
\* of the id and of floating.
setSelectedParamsFooterFirst(st, this, params) ==
    IF footer[this] THEN setSelectedParams(st, sibling[this], params)
    ELSE IF id[this] = Undefined THEN [st |-> st, ret |-> 0]
    ELSE IF floating[this] # NotFloating THEN [st |-> st, ret |-> 0]
    ELSE IF params.rangeSelect
            /\ rowModelType = RowModelNormal
            /\ st.lastSelectedNode # this
            /\ rowSelectionMulti
         THEN doRowRangeSelection(st, this)
         ELSE setSelectedNoRange(st, this, params)

\* setSelectedParams treating a footer as any other node.
setSelectedParamsNoFooter(st, this, params) ==
    IF id[this] = Undefined THEN [st |-> st, ret |-> 0]
    ELSE IF floating[this] # NotFloating THEN [st |-> st, ret |-> 0]
    ELSE IF params.rangeSelect
            /\ rowModelType = RowModelNormal
            /\ st.lastSelectedNode # this
            /\ rowSelectionMulti
         THEN doRowRangeSelection(st, this)
         ELSE setSelectedNoRange(st, this, params)

\* setSelectedParams running the range selection only when newValue is true.
setSelectedParamsRangeOnlyToSelect(st, this, params) ==
    IF id[this] = Undefined THEN [st |-> st, ret |-> 0]
    ELSE IF floating[this] # NotFloating THEN [st |-> st, ret |-> 0]
    ELSE IF footer[this] THEN setSelectedParams(st, sibling[this], params)
    ELSE IF params.rangeSelect
            /\ params.newValue
            /\ rowModelType = RowModelNormal
            /\ st.lastSelectedNode # this
            /\ rowSelectionMulti
         THEN doRowRangeSelection(st, this)
         ELSE setSelectedNoRange(st, this, params)

\* setSelectedParams(params): the state after the call and the returned count.
setSelectedParams(st, this, params) ==
    IF id[this] = Undefined THEN [st |-> st, ret |-> 0]
    ELSE IF floating[this] # NotFloating THEN [st |-> st, ret |-> 0]
    ELSE IF footer[this] THEN setSelectedParams(st, sibling[this], params)
    ELSE IF params.rangeSelect
            /\ rowModelType = RowModelNormal
            /\ st.lastSelectedNode # this
            /\ rowSelectionMulti
         THEN doRowRangeSelection(st, this)
         ELSE setSelectedNoRange(st, this, params)

-----------------------------------------------------------------------------
\* One row node: its fields, its listener registry and its events.

\* A boolean field that has not been assigned (undefined).
NotSet == Mixed
BooleanValues == {SelTrue, SelFalse}
\* The numbers passed to the numeric setters.
NumberValues == {0, 1}
\* Data items, the ids callers pass, and the column keys.
DataItems == {1, 2}
Ids == {5, 7}
Columns == <<"a", "b">>

\* An object reference that is null.
Null == <<>>

\* The static event names of RowNode, and the global Events it dispatches.
RowNode ==
    [EVENT_ROW_SELECTED |-> "rowSelected",
     EVENT_DATA_CHANGED |-> "dataChanged",
     EVENT_CELL_CHANGED |-> "cellChanged",
     EVENT_ALL_CHILDREN_COUNT_CELL_CHANGED |-> "allChildrenCountChanged",
     EVENT_MOUSE_ENTER |-> "mouseEnter",
     EVENT_MOUSE_LEAVE |-> "mouseLeave",
     EVENT_HEIGHT_CHANGED |-> "heightChanged",
     EVENT_TOP_CHANGED |-> "topChanged",
     EVENT_FIRST_CHILD_CHANGED |-> "firstChildChanged",
     EVENT_LAST_CHILD_CHANGED |-> "lastChildChanged",
     EVENT_CHILD_INDEX_CHANGED |-> "childIndexChanged",
     EVENT_ROW_INDEX_CHANGED |-> "rowIndexChanged",
     EVENT_EXPANDED_CHANGED |-> "expandedChanged",
     EVENT_UI_LEVEL_CHANGED |-> "uiLevelChanged"]

Events == [EVENT_ROW_GROUP_OPENED |-> "rowGroupOpened", EVENT_ROW_SELECTED |-> "rowSelected"]

\* new RowNode(): every field undefined except selected; no eventService.
\* ref names the object. An object is a set of <<key, value>> pairs; aggData
\* and groupData that are not there hold no key.
NewRowNode(ref) ==
    [ref |-> ref, id |-> Undefined, data |-> Undefined, aggData |-> {}, groupData |-> {},
     parent |-> Undefined, level |-> Undefined, uiLevel |-> Undefined,
     firstChild |-> NotSet, lastChild |-> NotSet, childIndex |-> Undefined,
     rowIndex |-> Undefined, allChildrenCount |-> Undefined, expanded |-> NotSet,
     rowHeight |-> Undefined, rowTop |-> Undefined, daemon |-> NotSet,
     selected |-> SelFalse, eventService |-> FALSE]

\* The object a daemon is allocated as: none of the tree's nodes.
DaemonRef == NumNodes + 1

\* What a listener or a collaborator receives: a local event of the node's
\* eventService, a global event of mainEventService, a call of a collaborator,
\* or an exception thrown to the caller.
LocalEvent(eventName, event) == [scope |-> "local", type |-> eventName, event |-> event]
GlobalEvent(eventName, event) == [scope |-> "global", type |-> eventName, event |-> event]
Collaborator(method, args) == [scope |-> "call", type |-> method, event |-> args]
Thrown(error) == [scope |-> "throw", type |-> error, event |-> Null]

\* An operation works on r: the node and what has been dispatched so far.
OnNode(n) == [node |-> n, log |-> <<>>]

\* dispatchLocalEvent with the test of eventService left out.
dispatchLocalEventAlways(r, eventName, event) ==
    [r EXCEPT !.log = Append(@, LocalEvent(eventName, event))]

\* dispatchLocalEvent (lines 294-298).
dispatchLocalEvent(r, eventName, event) ==
    IF r.node.eventService
    THEN [r EXCEPT !.log = Append(@, LocalEvent(eventName, event))]
    ELSE r

\* if (this.eventService) { this.eventService.dispatchEvent(eventName); }
ifEventService(r, eventName) ==
    IF r.node.eventService
    THEN [r EXCEPT !.log = Append(@, LocalEvent(eventName, Null))]
    ELSE r

\* this.mainEventService.dispatchEvent(eventName, event)
mainEventServiceDispatch(r, eventName, event) ==
    [r EXCEPT !.log = Append(@, GlobalEvent(eventName, event))]

setFirstChild(r, firstChild) ==
    IF r.node.firstChild = firstChild THEN r
    ELSE ifEventService([r EXCEPT !.node.firstChild = firstChild], RowNode.EVENT_FIRST_CHILD_CHANGED)

setLastChild(r, lastChild) ==
    IF r.node.lastChild = lastChild THEN r
    ELSE ifEventService([r EXCEPT !.node.lastChild = lastChild], RowNode.EVENT_LAST_CHILD_CHANGED)

setChildIndex(r, childIndex) ==
    IF r.node.childIndex = childIndex THEN r
    ELSE ifEventService([r EXCEPT !.node.childIndex = childIndex], RowNode.EVENT_CHILD_INDEX_CHANGED)

setRowTop(r, rowTop) ==
    IF r.node.rowTop = rowTop THEN r
    ELSE ifEventService([r EXCEPT !.node.rowTop = rowTop], RowNode.EVENT_TOP_CHANGED)

setAllChildrenCount(r, allChildrenCount) ==
    IF r.node.allChildrenCount = allChildrenCount THEN r
    ELSE ifEventService([r EXCEPT !.node.allChildrenCount = allChildrenCount],
                        RowNode.EVENT_ALL_CHILDREN_COUNT_CELL_CHANGED)

\* setRowHeight and setRowIndex assign and dispatch without comparing.
setRowHeight(r, rowHeight) ==
    ifEventService([r EXCEPT !.node.rowHeight = rowHeight], RowNode.EVENT_HEIGHT_CHANGED)

setRowIndex(r, rowIndex) ==
    ifEventService([r EXCEPT !.node.rowIndex = rowIndex], RowNode.EVENT_ROW_INDEX_CHANGED)

setUiLevel(r, uiLevel) ==
    IF r.node.uiLevel = uiLevel THEN r
    ELSE ifEventService([r EXCEPT !.node.uiLevel = uiLevel], RowNode.EVENT_UI_LEVEL_CHANGED)

\* setExpanded with the global event dispatched only to a node that has listeners.
setExpandedGlobalIfListening(r, expanded) ==
    IF r.node.expanded = expanded THEN r
    ELSE IF r.node.eventService
         THEN mainEventServiceDispatch(
                  ifEventService([r EXCEPT !.node.expanded = expanded], RowNode.EVENT_EXPANDED_CHANGED),
                  Events.EVENT_ROW_GROUP_OPENED, [node |-> r.node.ref])
         ELSE [r EXCEPT !.node.expanded = expanded]

\* setExpanded: the local event, then the global row group opened.
setExpanded(r, expanded) ==
    IF r.node.expanded = expanded THEN r
    ELSE mainEventServiceDispatch(
             ifEventService([r EXCEPT !.node.expanded = expanded], RowNode.EVENT_EXPANDED_CHANGED),
             Events.EVENT_ROW_GROUP_OPENED, [node |-> r.node.ref])

\* setData and updateData: replace data, then the local data changed event.
setData(r, data) ==
    dispatchLocalEvent([r EXCEPT !.node.data = data], RowNode.EVENT_DATA_CHANGED,
                       [oldData |-> r.node.data, newData |-> data, update |-> SelFalse])

updateData(r, data) ==
    dispatchLocalEvent([r EXCEPT !.node.data = data], RowNode.EVENT_DATA_CHANGED,
                       [oldData |-> r.node.data, newData |-> data, update |-> SelTrue])

\* createDaemonNode: a new node with this node's id, data, selected and level.
createDaemonNode(this) ==
    [NewRowNode(DaemonRef) EXCEPT !.id = this.id, !.data = this.data, !.daemon = SelTrue,
                                  !.selected = this.selected, !.level = this.level]

\* The user's getRowNodeId: the key of a data item.
getRowNodeId(data) == IF data = 1 THEN 5 ELSE 7

\* setId: the id of the data if the user provides ids, else the id passed.
setId(r, newId) ==
    IF getRowNodeIdFunc
    THEN (IF r.node.data # Undefined
          THEN [r EXCEPT !.node.id = getRowNodeId(r.node.data)]
          ELSE [r EXCEPT !.node.id = Undefined])
    ELSE [r EXCEPT !.node.id = newId]

\* setSelectedInitialValue: assigns selected, no event.
setSelectedInitialValue(r, newValue) == [r EXCEPT !.node.selected = newValue]

\* What selectionController.syncInRowNode may do to the live node: leave its
\* selected value alone, or set it through setSelectedInitialValue.
SyncChoices == {"keep"} \cup BooleanValues

\* selectionController.syncInRowNode(this, oldNode): the controller receives
\* the live node as it is now and the daemon (or null).
syncInRowNode(r, oldNode, sync) ==
    IF sync = "keep"
    THEN [r EXCEPT !.log = Append(@, Collaborator("syncInRowNode",
                                                  [node |-> r.node, oldNode |-> oldNode]))]
    ELSE setSelectedInitialValue(
             [r EXCEPT !.log = Append(@, Collaborator("syncInRowNode",
                                                      [node |-> r.node, oldNode |-> oldNode]))],
             sync)

\* let oldNode = _.exists(this.id) ? this.createDaemonNode() : null
oldNodeOf(this) == IF this.id # Undefined THEN <<createDaemonNode(this)>> ELSE Null

\* The rest of setDataAndId once oldNode and oldData are taken.
setDataAndIdFrom(r, oldNode, oldData, data, newId, sync) ==
    dispatchLocalEvent(
        syncInRowNode(setId([r EXCEPT !.node.data = data], newId), oldNode, sync),
        RowNode.EVENT_DATA_CHANGED, [oldData |-> oldData, newData |-> data, update |-> NotSet])

\* setDataAndId with the daemon taken after the node has its new data and id.
setDataAndIdDaemonLast(r, data, newId, sync) ==
    setDataAndIdFrom(r, oldNodeOf(setId([r EXCEPT !.node.data = data], newId).node),
                     r.node.data, data, newId, sync)

\* setDataAndId (lines 181-193).
setDataAndId(r, data, newId, sync) ==
    setDataAndIdFrom(r, oldNodeOf(r.node), r.node.data, data, newId, sync)

\* The keys of an object.
KeysOf(object) == {pair[1] : pair \in object}

\* _.getAllKeysInObjects([a, b]): the union of the keys of the two objects.
getAllKeysInObjects(a, b) == KeysOf(a) \cup KeysOf(b)

\* this.data ? this.data[colId] : undefined
DataValue(data, colId) == IF data # Undefined THEN <<data, colId>> ELSE Null

\* dispatchCellChangedEvent (lines 340-343).
dispatchCellChangedEvent(r, column, newValue) ==
    dispatchLocalEvent(r, RowNode.EVENT_CELL_CHANGED, [column |-> column, newValue |-> newValue])

\* colIds.forEach(...) of setAggData, from the i-th column on.
RECURSIVE forEachColId(_, _, _)
forEachColId(r, colIds, i) ==
    IF i > Len(Columns) THEN r
    ELSE IF Columns[i] \in colIds
         THEN forEachColId(dispatchCellChangedEvent(r, Columns[i],
                                                    DataValue(r.node.data, Columns[i])),
                           colIds, i + 1)
         ELSE forEachColId(r, colIds, i + 1)

\* setAggData that notifies only the keys of the new aggregate data.
setAggDataNewKeysOnly(r, newAggData) ==
    IF r.node.eventService
    THEN forEachColId([r EXCEPT !.node.aggData = newAggData], KeysOf(newAggData), 1)
    ELSE [r EXCEPT !.node.aggData = newAggData]

\* setAggData (lines 323-338).
setAggData(r, newAggData) ==
    IF r.node.eventService
    THEN forEachColId([r EXCEPT !.node.aggData = newAggData],
                      getAllKeysInObjects(r.node.aggData, newAggData), 1)
    ELSE [r EXCEPT !.node.aggData = newAggData]

\* setDataValue: the value service stores the value, then cell changed.
setDataValue(r, colKey, newValue) ==
    dispatchCellChangedEvent(
        [r EXCEPT !.log = Append(@, Collaborator("setValue",
                                                 [column |-> colKey, newValue |-> newValue]))],
        colKey, newValue)

\* setGroupValue: groupData[colId] = newValue, then cell changed.
setGroupValue(r, colKey, newValue) ==
    dispatchCellChangedEvent(
        [r EXCEPT !.node.groupData =
                      {pair \in @ : pair[1] # colKey} \cup {<<colKey, newValue>>}],
        colKey, newValue)

\* selectThisNode on this node: the local row selected event when there is an
\* eventService, then the global one (lines 610-623).
selectNode(r, newValue) ==
    IF r.node.selected = newValue THEN r
    ELSE mainEventServiceDispatch(
             dispatchLocalEvent([r EXCEPT !.node.selected = newValue], RowNode.EVENT_ROW_SELECTED, Null),
             Events.EVENT_ROW_SELECTED, [node |-> r.node.ref])

\* addEventListener: the eventService is created on first use.
addEventListener(r) == [r EXCEPT !.node.eventService = TRUE]

\* removeEventListener: calls into eventService without testing it.
removeEventListener(r) ==
    IF r.node.eventService THEN r
    ELSE [r EXCEPT !.log = Append(@, Thrown("TypeError"))]

onMouseEnter(r) == dispatchLocalEvent(r, RowNode.EVENT_MOUSE_ENTER, Null)

onMouseLeave(r) == dispatchLocalEvent(r, RowNode.EVENT_MOUSE_LEAVE, Null)

-----------------------------------------------------------------------------
\* The trees and grid options a run starts from.

Shapes == {"flat", "tree", "footer", "childless"}
Filters == {"all", "hide", "missing"}
Sorts == {"asc", "desc"}
Specials == {"none", "noId", "floating"}

\* flat: the rows are the root's children.
\* tree: root -> [1 -> [2 -> [3, 4]]], any further row a top level leaf.
\* footer: root -> [1 -> [2, 3]], and row 4 is the footer of group 1.
\* childless: root -> [1 -> [2, 3], 4], and row 4 is a group without children.
ShapeFooter(shape, n) == shape = "footer" /\ n = 4

ShapeGroup(shape, n) ==
    \/ n = Root
    \/ shape = "tree" /\ n \in {1, 2}
    \/ shape = "footer" /\ n \in {1, 4}
    \/ shape = "childless" /\ n \in {1, 4}

ShapeSibling(shape, n) ==
    IF shape = "footer" /\ n = 4 THEN 1
    ELSE IF shape = "footer" /\ n = 1 THEN 4
    ELSE Undefined

ShapeParent(shape, n) ==
    IF n = Root THEN Undefined
    ELSE IF shape = "tree" /\ n = 2 THEN 1
    ELSE IF shape = "tree" /\ n \in {3, 4} THEN 2
    ELSE IF shape \in {"footer", "childless"} /\ n \in {2, 3} THEN 1
    ELSE Root

\* The rows in rising order.
AllRows == [i \in 1..NumNodes |-> i]

Reverse(s) == [i \in 1..Len(s) |-> s[Len(s) + 1 - i]]

\* A footer is a copy of its group and shares the group's children list.
ShapeChildren(shape, n) ==
    IF ~ShapeGroup(shape, n) THEN Missing
    ELSE LET owner == IF ShapeFooter(shape, n) THEN ShapeSibling(shape, n) ELSE n
             IsChild(m) == ShapeParent(shape, m) = owner /\ ~ShapeFooter(shape, m)
         IN  SelectSeq(AllRows, IsChild)

\* The rows the filter removes, and the groups the filter stage has not visited.
Hidden(filter) == IF filter = "hide" THEN {3} ELSE {}
Unfiltered(filter) == IF filter = "missing" THEN {2} ELSE {}

FilteredChildren(shape, filter, n) ==
    LET children == ShapeChildren(shape, n)
        Passes(m) == m \notin Hidden(filter)
    IN  IF children = Missing \/ n \in Unfiltered(filter) THEN Missing
        ELSE SelectSeq(children, Passes)

SortedChildren(shape, filter, sort, n) ==
    LET children == FilteredChildren(shape, filter, n)
    IN  IF children = Missing \/ sort = "asc" THEN children ELSE Reverse(children)

\* The rows without an id yet (special = "noId") or pinned (special = "floating").
SpecialRows == {3, 4}

World(shape, filter, sort, special, gsc, multi, model) ==
    [shape |-> shape, filter |-> filter, sort |-> sort, special |-> special,
     gsc |-> gsc, multi |-> multi, model |-> model]

\* Flat lists without grouping: filtered or not, single or multi select, one
\* sorted downwards, one served by another row model.
FlatWorlds ==
    {World("flat", f, "asc", "none", FALSE, m, RowModelNormal) :
        f \in {"all", "hide"}, m \in BOOLEAN}
    \cup {World("flat", "hide", "desc", "none", FALSE, TRUE, RowModelNormal),
          World("flat", "all", "asc", "none", FALSE, TRUE, RowModelOther)}

\* Nested groups where the group selects its children; one where it does not.
TreeWorlds ==
    {World("tree", f, "asc", "none", TRUE, m, RowModelNormal) :
        f \in Filters, m \in BOOLEAN}
    \cup {World("tree", "hide", "asc", "none", FALSE, TRUE, RowModelNormal)}

\* A group with a footer, with rows that have no id or are pinned.
FooterWorlds ==
    {World("footer", "all", "asc", s, g, TRUE, RowModelNormal) :
        s \in Specials, g \in BOOLEAN}

Worlds == FlatWorlds \cup TreeWorlds \cup FooterWorlds

NoCall == [node |-> Undefined,
           params |-> [newValue |-> FALSE, clearSelection |-> FALSE,
                       tailingNodeInSequence |-> FALSE, rangeSelect |-> FALSE,
                       groupSelectsFiltered |-> FALSE],
           ret |-> 0, log |-> <<>>]
NoSnapshot == [selected |-> [n \in Nodes |-> SelFalse], lastSelectedNode |-> Undefined]
NoEarlier == [node |-> Undefined, params |-> NoCall.params, ret |-> 0,
              selected |-> NoSnapshot.selected, lastSelectedNode |-> Undefined]

InitWorld(w) ==
    /\ id = [n \in Nodes |-> IF w.special = "noId" /\ n \in SpecialRows THEN Undefined ELSE n]
    /\ floating = [n \in Nodes |->
                     IF w.special = "floating" /\ n \in SpecialRows
                     THEN (IF n = 3 THEN FloatingTop ELSE FloatingBottom)
                     ELSE NotFloating]
    /\ group = [n \in Nodes |-> ShapeGroup(w.shape, n)]
    /\ footer = [n \in Nodes |-> ShapeFooter(w.shape, n)]
    /\ sibling = [n \in Nodes |-> ShapeSibling(w.shape, n)]
    /\ parent = [n \in Nodes |-> ShapeParent(w.shape, n)]
    /\ childrenAfterGroup = [n \in Nodes |-> ShapeChildren(w.shape, n)]
    /\ childrenAfterFilter = [n \in Nodes |-> FilteredChildren(w.shape, w.filter, n)]
    /\ childrenAfterSort = [n \in Nodes |-> SortedChildren(w.shape, w.filter, w.sort, n)]
    /\ selected = [n \in Nodes |-> SelFalse]
    /\ groupSelectsChildren = w.gsc
    /\ rowSelectionMulti = w.multi
    /\ rowModelType = w.model
    /\ lastSelectedNode = Undefined
    /\ pc = "ready"
    /\ call = NoCall
    /\ before = NoSnapshot
    /\ earlier = NoEarlier

\* The node as the row model builds it: the first row below the root.
InitialNode == [NewRowNode(Root + 1) EXCEPT !.parent = Root, !.level = 0]

NoNodeCall == [op |-> "none", args |-> Null, log |-> <<>>]

InitRowNode(func) ==
    /\ node = InitialNode
    /\ getRowNodeIdFunc = func
    /\ nodeCall = NoNodeCall
    /\ nodeBefore = InitialNode
    /\ calls = 0

Init == \E w \in Worlds : InitWorld(w) /\ InitRowNode(FALSE)

-----------------------------------------------------------------------------
\* The operations.

\* The state the operations work on: the tree's selection, the selection
\* controller's anchor, and what has been dispatched so far in this call.
Entry == [selected |-> selected, lastSelectedNode |-> lastSelectedNode, log |-> <<>>]

\* The caller has the result r of this.setSelectedParams(params), called in the
\* state entered; previous is the call made just before it, if any.
Called(this, params, r, entered, previous) ==
    /\ pc = "ready"
    /\ earlier' = previous
    /\ before' = entered
    /\ selected' = r.st.selected
    /\ lastSelectedNode' = r.st.lastSelectedNode
    /\ call' = [node |-> this, params |-> params, ret |-> r.ret, log |-> r.st.log]
    /\ pc' = "returned"
    /\ UNCHANGED <<tree, options, nodeVars>>

\* A caller invokes this.setSelectedParams(params) and receives the count.
Invoke(this, params) ==
    Called(this, params, setSelectedParams(Entry, this, params),
           [selected |-> selected, lastSelectedNode |-> lastSelectedNode], NoEarlier)

\* The second of two calls in a row, r1 being the result of the first.
InvokeSecond(r1, first, p1, this, p2) ==
    Called(this, p2, setSelectedParams([r1.st EXCEPT !.log = <<>>], this, p2),
           [selected |-> r1.st.selected, lastSelectedNode |-> r1.st.lastSelectedNode],
           [node |-> first, params |-> p1, ret |-> r1.ret,
            selected |-> selected, lastSelectedNode |-> lastSelectedNode])

\* A caller invokes first.setSelectedParams(p1) and then this.setSelectedParams(p2).
InvokeTwo(first, p1, this, p2) ==
    InvokeSecond(setSelectedParams(Entry, first, p1), first, p1, this, p2)

\* setSelected(newValue, clearSelection, tailingNodeInSequence): rangeSelect is off.
SetSelectedArgs(newValue, clearSelection, tailingNodeInSequence) ==
    [newValue |-> newValue, clearSelection |-> clearSelection,
     tailingNodeInSequence |-> tailingNodeInSequence, rangeSelect |-> FALSE,
     groupSelectsFiltered |-> FALSE]

\* A user action on a row without shift: rangeSelect is off.
SetSelected ==
    \E this \in Rows : \E params \in Params :
        /\ ~params.tailingNodeInSequence
        /\ ~params.rangeSelect
        /\ Invoke(this, params)

\* A user action on a row with shift held: rangeSelect is on.
RangeSelect ==
    \E this \in Rows : \E params \in Params :
        /\ ~params.tailingNodeInSequence
        /\ params.rangeSelect
        /\ Invoke(this, params)

\* A call made as part of a sequence (tailingNodeInSequence), as the selection
\* controller and selectChildNodes make them.
TailSelect ==
    \E this \in Rows : \E params \in Params :
        /\ params.tailingNodeInSequence
        /\ Invoke(this, params)

\* setSelected(true) called twice in a row on the same node.
SetSelectedTwice ==
    \E this \in Rows :
        /\ pc = "ready"
        /\ InvokeTwo(this, SetSelectedArgs(TRUE, FALSE, FALSE),
                     this, SetSelectedArgs(TRUE, FALSE, FALSE))

\* A click on one row that selects it, then a shift click on another.
SelectThenRange ==
    \E first \in Rows : \E this \in Rows : \E clearSelection \in BOOLEAN :
        /\ first # this
        /\ InvokeTwo(first, SetSelectedArgs(TRUE, clearSelection, FALSE),
                     this, [SetSelectedArgs(TRUE, FALSE, FALSE) EXCEPT !.rangeSelect = TRUE])

\* The caller is done with the returned count and the dispatched events.
Return ==
    /\ pc = "returned"
    /\ pc' = "ready"
    /\ call' = NoCall
    /\ before' = NoSnapshot
    /\ earlier' = NoEarlier
    /\ UNCHANGED <<tree, options, selected, lastSelectedNode, nodeVars>>

\* The user's actions: no caller passes tailingNodeInSequence.
Next == SetSelected \/ RangeSelect \/ SetSelectedTwice \/ SelectThenRange \/ Return

Spec == Init /\ [][Next]_vars

\* Every caller, the ones that pass tailingNodeInSequence included, on the
\* trees with a footer and on the filtered tree.
InitAll ==
    \E w \in {World("footer", "all", "asc", s, TRUE, TRUE, RowModelNormal) : s \in Specials}
              \cup {World("footer", "all", "asc", "none", FALSE, TRUE, RowModelNormal),
                    World("tree", "hide", "asc", "none", TRUE, TRUE, RowModelNormal)} :
        InitWorld(w) /\ InitRowNode(FALSE)

NextAll == SetSelected \/ RangeSelect \/ TailSelect \/ Return

SpecAll == InitAll /\ [][NextAll]_vars

-----------------------------------------------------------------------------
\* The operations on one row node.

\* The number of operations a run calls on the node.
MaxCalls == 3

\* The aggregate data objects setAggData is called with.
AggDatas == {{}, {<<"a", 1>>}, {<<"a", 1>>, <<"b", 2>>}, {<<"b", 2>>}}

\* The caller has the result r of the operation op called with args on node.
NodeCalled(op, args, r) ==
    /\ calls < MaxCalls
    /\ node' = r.node
    /\ nodeCall' = [op |-> op, args |-> args, log |-> r.log]
    /\ nodeBefore' = node
    /\ calls' = calls + 1
    /\ UNCHANGED <<getRowNodeIdFunc, tree, options, selected, lastSelectedNode,
                   pc, call, before, earlier>>

SetFirstChild ==
    \E firstChild \in BooleanValues :
        NodeCalled("setFirstChild", <<firstChild>>, setFirstChild(OnNode(node), firstChild))

SetLastChild ==
    \E lastChild \in BooleanValues :
        NodeCalled("setLastChild", <<lastChild>>, setLastChild(OnNode(node), lastChild))

SetChildIndex ==
    \E childIndex \in NumberValues :
        NodeCalled("setChildIndex", <<childIndex>>, setChildIndex(OnNode(node), childIndex))

SetRowTop ==
    \E rowTop \in NumberValues :
        NodeCalled("setRowTop", <<rowTop>>, setRowTop(OnNode(node), rowTop))

SetAllChildrenCount ==
    \E allChildrenCount \in NumberValues :
        NodeCalled("setAllChildrenCount", <<allChildrenCount>>,
                   setAllChildrenCount(OnNode(node), allChildrenCount))

SetRowHeight ==
    \E rowHeight \in NumberValues :
        NodeCalled("setRowHeight", <<rowHeight>>, setRowHeight(OnNode(node), rowHeight))

SetRowIndex ==
    \E rowIndex \in NumberValues :
        NodeCalled("setRowIndex", <<rowIndex>>, setRowIndex(OnNode(node), rowIndex))

SetUiLevel ==
    \E uiLevel \in NumberValues :
        NodeCalled("setUiLevel", <<uiLevel>>, setUiLevel(OnNode(node), uiLevel))

SetExpanded ==
    \E expanded \in BooleanValues :
        NodeCalled("setExpanded", <<expanded>>, setExpanded(OnNode(node), expanded))

SetData ==
    \E data \in DataItems :
        NodeCalled("setData", <<data>>, setData(OnNode(node), data))

UpdateData ==
    \E data \in DataItems :
        NodeCalled("updateData", <<data>>, updateData(OnNode(node), data))

\* setDataAndId(data, id), with what the selection controller does in it.
SetDataAndId ==
    \E data \in DataItems \cup {Undefined} : \E newId \in Ids : \E sync \in SyncChoices :
        NodeCalled("setDataAndId", <<data, newId, sync>>,
                   setDataAndId(OnNode(node), data, newId, sync))

SetAggData ==
    \E newAggData \in AggDatas :
        NodeCalled("setAggData", <<newAggData>>, setAggData(OnNode(node), newAggData))

SetDataValue ==
    \E i \in 1..Len(Columns) : \E newValue \in NumberValues :
        NodeCalled("setDataValue", <<Columns[i], newValue>>,
                   setDataValue(OnNode(node), Columns[i], newValue))

SetGroupValue ==
    \E i \in 1..Len(Columns) : \E newValue \in NumberValues :
        NodeCalled("setGroupValue", <<Columns[i], newValue>>,
                   setGroupValue(OnNode(node), Columns[i], newValue))

\* selectThisNode(newValue), as setSelectedParams calls it on this node.
SelectThisNode ==
    \E newValue \in BooleanValues :
        NodeCalled("selectThisNode", <<newValue>>, selectNode(OnNode(node), newValue))

AddEventListener == NodeCalled("addEventListener", Null, addEventListener(OnNode(node)))

RemoveEventListener == NodeCalled("removeEventListener", Null, removeEventListener(OnNode(node)))

OnMouseEnter == NodeCalled("onMouseEnter", Null, onMouseEnter(OnNode(node)))

OnMouseLeave == NodeCalled("onMouseLeave", Null, onMouseLeave(OnNode(node)))

\* A flat list whose first row is the node, with or without a user id function.
InitNode ==
    /\ InitWorld(World("flat", "all", "asc", "none", FALSE, TRUE, RowModelNormal))
    /\ \E func \in BOOLEAN : InitRowNode(func)

NextNode ==
    \/ SetFirstChild \/ SetLastChild \/ SetChildIndex \/ SetRowTop
    \/ SetAllChildrenCount \/ SetRowHeight \/ SetRowIndex \/ SetUiLevel \/ SetExpanded
    \/ SetData \/ UpdateData \/ SetDataAndId \/ SetAggData \/ SetDataValue \/ SetGroupValue
    \/ SelectThisNode \/ AddEventListener \/ RemoveEventListener
    \/ OnMouseEnter \/ OnMouseLeave

SpecNode == InitNode /\ [][NextNode]_vars

-----------------------------------------------------------------------------
\* calculateSelectedFromChildren() called from outside, as the row controller
\* calls it when it updates the groups of the selection.

\* The caller has the state st that n.calculateSelectedFromChildren() left.
CalculatedFrom(n, st) ==
    /\ pc = "ready"
    /\ before' = [selected |-> selected, lastSelectedNode |-> lastSelectedNode]
    /\ selected' = st.selected
    /\ lastSelectedNode' = st.lastSelectedNode
    /\ call' = [NoCall EXCEPT !.node = n, !.log = st.log]
    /\ pc' = "calculated"
    /\ UNCHANGED <<tree, options, earlier, nodeVars>>

CalculateSelectedFromChildren ==
    \E n \in Nodes : CalculatedFrom(n, calculateSelectedFromChildren(Entry, n))

\* The caller is done with the events of calculateSelectedFromChildren().
ReturnFromCalculate ==
    /\ pc = "calculated"
    /\ pc' = "ready"
    /\ call' = NoCall
    /\ before' = NoSnapshot
    /\ UNCHANGED <<tree, options, selected, lastSelectedNode, earlier, nodeVars>>

\* Trees with nested groups, with a footer and with a group without children,
\* where the groups select their children or not.
InitCalc ==
    \E w \in {World(s, "all", "asc", "none", g, TRUE, RowModelNormal) :
                 s \in {"tree", "footer", "childless"}, g \in BOOLEAN} :
        InitWorld(w) /\ InitRowNode(FALSE)

NextCalc == SetSelected \/ CalculateSelectedFromChildren \/ Return \/ ReturnFromCalculate

SpecCalc == InitCalc /\ [][NextCalc]_vars

-----------------------------------------------------------------------------
\* What the claims speak of.

Returned == pc = "returned"

\* The node a call acts on: a footer hands the call to its sibling.
ActsOn(n) == IF footer[n] THEN sibling[n] ELSE n

\* A node setSelectedParams turns away: no id yet, or pinned.
Unselectable(n) == id[n] = Undefined \/ floating[n] \in {FloatingTop, FloatingBottom}

\* The returned call was turned away, at the node or at the footer's sibling.
Rejected == Unselectable(call.node) \/ Unselectable(ActsOn(call.node))

\* The returned call ran the range algorithm.
RangeRan ==
    /\ Returned
    /\ ~Rejected
    /\ call.params.rangeSelect
    /\ rowModelType = RowModelNormal
    /\ rowSelectionMulti
    /\ before.lastSelectedNode # ActsOn(call.node)

\* The returned call is a user action that did not run the range algorithm.
TopLevelNoRange ==
    /\ Returned
    /\ ~Rejected
    /\ ~call.params.tailingNodeInSequence
    /\ ~RangeRan

\* The events of one type in a log.
EventsOfType(log, type) == {i \in 1..Len(log) : log[i].type = type}

\* The aggregate of a group's direct children: true if all are true, false if
\* all are false, undefined otherwise.
AggregateOfChildren(sel, g) ==
    LET values == {isSelected(sel, childrenAfterGroup[g][i]) :
                       i \in 1..Len(childrenAfterGroup[g])}
    IN  IF values = {SelTrue} THEN SelTrue
        ELSE IF values = {SelFalse} THEN SelFalse
        ELSE Mixed

\* The group nodes of the tree, the root among them; a footer is a copy of one.
GroupNodes == {g \in Nodes : group[g] /\ ~footer[g]}

GroupsAgree(sel) == \A g \in GroupNodes : sel[g] = AggregateOfChildren(sel, g)

\* Every node of the tree can be selected.
AllSelectable == \A n \in Nodes : ~Unselectable(n)

\* C1: with group selects children on, after every user action each group node,
\* the root included, is true iff all its direct children are true, false iff
\* all are false, and undefined otherwise.
C1_GroupsAgreeWithChildren ==
    groupSelectsChildren /\ AllSelectable => GroupsAgree(selected)

\* The traversal of the range selection, and where a node stands in it.
Order == forEachNodeAfterFilterAndSort
Traversed == {Order[i] : i \in 1..Len(Order)}
Pos(n) == CHOOSE i \in 1..Len(Order) : Order[i] = n

\* The anchor A the range starts from and the clicked node B.
Anchor == before.lastSelectedNode
Clicked == ActsOn(call.node)

\* Both ends of the range are rows of the traversal (without an anchor the
\* range starts at the first row).
EndpointsTraversed == Clicked \in Traversed /\ (Anchor = Undefined \/ Anchor \in Traversed)

RangeLo == IF Anchor = Undefined \/ Pos(Anchor) > Pos(Clicked)
           THEN (IF Anchor = Undefined THEN 1 ELSE Pos(Clicked))
           ELSE Pos(Anchor)
RangeHi == IF Anchor = Undefined \/ Pos(Anchor) < Pos(Clicked) THEN Pos(Clicked) ELSE Pos(Anchor)

\* n lies between A and B inclusive in the traversal.
Between(n) == n \in Traversed /\ Pos(n) \in RangeLo..RangeHi

\* The endpoint the traversal reaches last, and the nodes below it.
LastEndpoint == Order[RangeHi]

RECURSIVE AncestorsOf(_)
AncestorsOf(n) == IF parent[n] = Undefined THEN {} ELSE {parent[n]} \cup AncestorsOf(parent[n])

BelowLastEndpoint(n) == LastEndpoint \in AncestorsOf(n)

\* No row is a group: a flat list.
FlatList == \A r \in Rows : ~group[r]

\* The traversed nodes whose selected value the returned call changed.
ChangedTraversed == {n \in Traversed : selected[n] # before.selected[n]}

\* C2 as stated: in a flat list a range selection leaves as selected exactly
\* the nodes between A and B inclusive in the traversal, and returns the number
\* of traversed nodes it changed.
C2_RangeSelectsExactlyBetween ==
    RangeRan /\ FlatList /\ EndpointsTraversed =>
        /\ {n \in Rows : selected[n] = SelTrue} = {n \in Rows : Between(n)}
        /\ call.ret = Cardinality(ChangedTraversed)

\* C2 as amended: in a flat list a range selection between two traversed ends
\* leaves a traversed node selected iff it lies between A and B inclusive
\* (from the first row when there is no anchor), leaves every node absent from
\* the traversal as it was, and returns the number of traversed nodes changed.
C2_RangeSelectsBetweenAmongTraversed ==
    RangeRan /\ FlatList /\ EndpointsTraversed =>
        /\ \A n \in Traversed : selected[n] = (IF Between(n) THEN SelTrue ELSE SelFalse)
        /\ \A n \in Rows \ Traversed : selected[n] = before.selected[n]
        /\ Anchor = Undefined => RangeLo = 1
        /\ call.ret = Cardinality(ChangedTraversed)

\* C2 witness: a range selected upwards from the anchor, over at least three
\* rows, while a filtered out row stays selected.
C2_Witness ==
    /\ RangeRan /\ FlatList /\ EndpointsTraversed
    /\ Anchor # Undefined /\ Pos(Anchor) > Pos(Clicked) + 1
    /\ call.ret >= 2
    /\ \E n \in Rows \ Traversed : selected[n] = SelTrue

\* C3 as stated: a range selection leaves every node outside the range (and
\* not below the last endpoint) as it was.
C3_OutsideRangeUnchanged ==
    RangeRan /\ EndpointsTraversed =>
        \A n \in Nodes : ~Between(n) /\ ~BelowLastEndpoint(n) =>
            selected[n] = before.selected[n]

\* C3 as amended: a range selection leaves as it was every node absent from the
\* traversal, and leaves unselected every traversed node outside the range and
\* not below the last endpoint, whatever it was before (group nodes aside when
\* the group selects children, their state being derived).
C3_OutsideRangeDeselected ==
    RangeRan =>
        \A n \in Nodes : ~(groupSelectsChildren /\ group[n]) =>
            /\ n \notin Traversed => selected[n] = before.selected[n]
            /\ EndpointsTraversed /\ n \in Traversed /\ ~Between(n) /\ ~BelowLastEndpoint(n)
                   => selected[n] = SelFalse

\* C3 witness: a selected row outside the range was deselected, and a selected
\* row absent from the traversal was kept.
C3_Witness ==
    /\ RangeRan /\ EndpointsTraversed
    /\ \E n \in Traversed : /\ ~Between(n) /\ ~BelowLastEndpoint(n)
                             /\ before.selected[n] = SelTrue /\ selected[n] = SelFalse
    /\ \E n \in Rows \ Traversed : before.selected[n] = SelTrue /\ selected[n] = SelTrue

\* The caller selected one row and then shift clicked another.
SelectedThenRanged == Returned /\ earlier.node # Undefined /\ call.params.rangeSelect

\* What the same two calls leave when made the other way round from the same
\* tree: the clicked node selected first, then the range taken to the first.
OtherWayRound ==
    LET start == [selected |-> earlier.selected,
                  lastSelectedNode |-> earlier.lastSelectedNode, log |-> <<>>]
        r1 == setSelectedParams(start, call.node, earlier.params)
        r2 == setSelectedParams([r1.st EXCEPT !.log = <<>>], earlier.node, call.params)
    IN  r2.st.selected

SelectedSet(sel) == {n \in Nodes : sel[n] = SelTrue}

\* Both clicks were accepted, on two different nodes, and the range algorithm ran.
BothWaysRange ==
    /\ SelectedThenRanged
    /\ rowSelectionMulti /\ rowModelType = RowModelNormal
    /\ ~Unselectable(earlier.node) /\ ~Unselectable(ActsOn(earlier.node))
    /\ ~Unselectable(call.node) /\ ~Unselectable(ActsOn(call.node))
    /\ ActsOn(earlier.node) # ActsOn(call.node)

\* C4 as stated: selecting A and range selecting B leaves the same set of
\* selected nodes as selecting B and range selecting A (here already without
\* groups that select their children).
C4_RangeSymmetric ==
    BothWaysRange /\ ~groupSelectsChildren =>
        SelectedSet(selected) = SelectedSet(OtherWayRound)

\* C4 on the traversed nodes, which does hold: the two orders leave the same selected value on every node
\* the traversal visits (group nodes aside when the group selects children),
\* and the same selected set when both endpoints are in the traversal and groups
\* do not select their children; a node absent from the traversal keeps what
\* the first click left it.
C4_RangeSymmetricOnTraversed ==
    BothWaysRange =>
        /\ \A n \in Traversed : ~(groupSelectsChildren /\ group[n]) =>
               selected[n] = OtherWayRound[n]
        /\ ~groupSelectsChildren
             /\ ActsOn(earlier.node) \in Traversed /\ ActsOn(call.node) \in Traversed
               => SelectedSet(selected) = SelectedSet(OtherWayRound)

\* C4, a case where the two orders agree: a range taken upwards between two traversed rows with a row
\* in between, equal both ways round, in a tree with a group as an endpoint.
C4_Witness ==
    /\ BothWaysRange /\ EndpointsTraversed
    /\ Pos(Anchor) > Pos(Clicked) + 1
    /\ group[Clicked]
    /\ SelectedSet(selected) = SelectedSet(OtherWayRound)
    /\ Cardinality(SelectedSet(selected)) >= 3

\* The caller called setSelected(true) twice in a row on the same node.
SelectedTwice == Returned /\ earlier.node # Undefined /\ ~call.params.rangeSelect

\* An unselected row that is no group, has an id and is not pinned.
PlainUnselectedRow(sel, n) == ~group[n] /\ ~Unselectable(n) /\ sel[n] = SelFalse

\* A log without row selected and selection changed events.
NoSelectionEvents(log) ==
    EventsOfType(log, "rowSelected") \cup EventsOfType(log, "selectionChanged") = {}

\* C5 as stated: setSelected(true) twice on an unselected plain row returns 1
\* and then 0, and the second call changes nothing and dispatches no event.
C5_SelectTwiceOneThenZero ==
    SelectedTwice /\ PlainUnselectedRow(earlier.selected, call.node) =>
        /\ earlier.ret = 1
        /\ call.ret = 0
        /\ selected = before.selected
        /\ NoSelectionEvents(call.log)

\* The other selected nodes the first call clears when multi select is off.
OthersCleared(sel, n) ==
    IF rowSelectionMulti THEN {}
    ELSE {m \in Nodes \ {n} : sel[m] = SelTrue /\ ~(groupSelectsChildren /\ group[m])}

\* C5 as amended: the first call returns 1 with multi select, and 1 plus the
\* number of other selected nodes it clears without; the second returns 0,
\* changes no node and dispatches no event.
C5_SelectTwiceSecondIsNoOp ==
    SelectedTwice /\ PlainUnselectedRow(earlier.selected, call.node) =>
        /\ earlier.ret = 1 + Cardinality(OthersCleared(earlier.selected, call.node))
        /\ call.ret = 0
        /\ selected = before.selected
        /\ NoSelectionEvents(call.log)

\* C5 witness: the two calls on an unselected row returned 1 and 0 with
\* another row selected, the row now being selected.
C5_Witness ==
    /\ SelectedTwice /\ PlainUnselectedRow(earlier.selected, call.node)
    /\ earlier.ret = 1 /\ call.ret = 0
    /\ selected[call.node] = SelTrue
    /\ \E m \in Rows \ {call.node} : selected[m] = SelTrue

\* The nodes whose own selection a call on n assigns: n itself, and below a
\* group that selects its children the selectable nodes of its children lists.
RECURSIVE ReachedFrom(_)
ReachedFrom(n) ==
    IF Unselectable(n) THEN {}
    ELSE {n} \cup (IF groupSelectsChildren /\ group[n] /\ childrenAfterGroup[n] # Missing
                  THEN UNION {ReachedFrom(childrenAfterGroup[n][i]) :
                                  i \in 1..Len(childrenAfterGroup[n])}
                  ELSE {})

Reached ==
    LET this == ActsOn(call.node)
        filtered == groupSelectsChildren /\ call.params.groupSelectsFiltered
        children == IF filtered THEN childrenAfterFilter[this] ELSE childrenAfterGroup[this]
    IN  (IF filtered /\ group[this] THEN {} ELSE {this})
        \cup (IF groupSelectsChildren /\ group[this] /\ children # Missing
              THEN UNION {ReachedFrom(children[i]) : i \in 1..Len(children)}
              ELSE {})

\* The nodes clearOtherNodes changed: deselected after it was called, groups
\* whose state is derived aside.
ClearedByRegistry ==
    {i \in EventsOfType(call.log, "rowSelected") :
        /\ \E j \in EventsOfType(call.log, "clearOtherNodes") : j < i
        /\ ~(groupSelectsChildren /\ group[call.log[i].node])}

\* C6: a user action that is not a range selection returns a natural number:
\* the nodes among this one and the propagated descendants that changed, plus
\* the count of clearOtherNodes; changes of ancestor groups do not count.
C6_CountIsChangedPlusCleared ==
    TopLevelNoRange =>
        /\ call.ret \in Nat
        /\ call.ret = Cardinality({n \in Reached :
                                     before.selected[n] # ToSelected(call.params.newValue)})
                      + Cardinality(ClearedByRegistry)

\* C7: a call on a node without an id or on a pinned node, a footer with a
\* selectable sibling included, returns 0 and does nothing: no selected value
\* and no anchor changes, nothing is dispatched or asked of the registry.
C7_UnselectableIsNoOp ==
    Returned /\ Unselectable(call.node) =>
        /\ call.ret = 0
        /\ selected = before.selected
        /\ lastSelectedNode = before.lastSelectedNode
        /\ call.log = <<>>

\* C7 witness: a selecting call returned from a footer without id or pinned,
\* whose sibling is selectable and unselected.
C7_Witness ==
    /\ Returned /\ Unselectable(call.node) /\ footer[call.node]
    /\ ~Unselectable(sibling[call.node])
    /\ selected[sibling[call.node]] = SelFalse
    /\ call.params.newValue /\ ~call.params.tailingNodeInSequence

\* C8: a footer's own selected field is never written and isSelected() on it
\* is its sibling's; a call on a selectable footer does exactly what the same
\* call on its sibling does.
C8_FooterFollowsSibling ==
    \A f \in Nodes : footer[f] =>
        /\ selected[f] = SelFalse
        /\ isSelected(selected, f) = selected[sibling[f]]
        /\ Returned /\ call.node = f /\ ~Unselectable(f) =>
              LET r == setSelectedParams([selected |-> before.selected,
                                          lastSelectedNode |-> before.lastSelectedNode,
                                          log |-> <<>>], sibling[f], call.params)
              IN  /\ selected = r.st.selected
                  /\ lastSelectedNode = r.st.lastSelectedNode
                  /\ call.ret = r.ret
                  /\ call.log = r.st.log
                  /\ \A i \in 1..Len(call.log) : call.log[i].node # f

\* C8 witness: a call on a footer selected its sibling and the sibling's children.
C8_Witness ==
    /\ Returned /\ footer[call.node] /\ ~Unselectable(call.node)
    /\ call.ret >= 2
    /\ selected[sibling[call.node]] = SelTrue
    /\ selected[call.node] = SelFalse
    /\ lastSelectedNode = sibling[call.node]

\* C9: a user action that is not a range selection dispatches selection
\* changed once if its count is above 0 and never if it is 0; a range
\* selection dispatches it once, as the last thing it does.
C9_SelectionChangedOnce ==
    Returned /\ ~call.params.tailingNodeInSequence =>
        LET changes == EventsOfType(call.log, "selectionChanged")
        IN  IF RangeRan
            THEN changes = {Len(call.log)} /\ Len(call.log) > 0
            ELSE /\ Cardinality(changes) <= 1
                 /\ call.ret > 0 => Cardinality(changes) = 1
                 /\ call.ret = 0 => changes = {}

\* C9 witness: one selection changed for a call that changed this node, its
\* children, nodes the registry cleared and an ancestor group.
C9_Witness ==
    /\ TopLevelNoRange
    /\ call.ret >= 3
    /\ Cardinality(EventsOfType(call.log, "selectionChanged")) = 1
    /\ EventsOfType(call.log, "clearOtherNodes") # {}
    /\ Cardinality(EventsOfType(call.log, "rowSelected")) > call.ret

\* C10: in a user action every row selected event precedes selection changed,
\* no selected value changes after it, and its listener observes a tree in
\* which every group agrees with the aggregate of its children.
C10_ConsistentWhenSelectionChanged ==
    Returned /\ ~call.params.tailingNodeInSequence /\ AllSelectable =>
        \A i \in EventsOfType(call.log, "selectionChanged") :
            /\ \A j \in EventsOfType(call.log, "rowSelected") : j < i
            /\ call.log[i].value = selected
            /\ groupSelectsChildren => GroupsAgree(call.log[i].value)

\* The returned call is one that records the anchor: a user action with
\* newValue = true that was not turned away and did not run the range algorithm.
RecordsAnchor == TopLevelNoRange /\ call.params.newValue

\* C11: the anchor changes only in a call that is not turned away, does not run
\* the range algorithm, is not a tailing (recursive child) call and has
\* newValue = true; it then becomes the node the call acted on (the sibling of
\* a footer), set once, whether or not the call changed anything. Every other
\* call leaves the anchor as it was and never sets it.
C11_AnchorOnlyByTopLevelSelect ==
    Returned =>
        LET sets == EventsOfType(call.log, "setLastSelectedNode")
        IN  IF RecordsAnchor
            THEN /\ lastSelectedNode = ActsOn(call.node)
                 /\ Cardinality(sets) = 1
                 /\ \A i \in sets : call.log[i].node = ActsOn(call.node)
            ELSE /\ lastSelectedNode = before.lastSelectedNode
                 /\ sets = {}

\* C11 witness: a call on a footer that changed nothing moved the anchor from
\* another node to the footer's sibling.
C11_Witness ==
    /\ RecordsAnchor
    /\ footer[call.node]
    /\ call.ret = 0
    /\ before.lastSelectedNode \notin {Undefined, ActsOn(call.node)}
    /\ lastSelectedNode = ActsOn(call.node)

\* The nodes whose selected value is true.
SelectedNodes == {n \in Nodes : selected[n] = SelTrue}

\* The returned call was made with newValue = true and clearSelection = true.
SelectAndClear == Returned /\ call.params.newValue /\ call.params.clearSelection

\* C12 as stated: in a flat list, with single select at most one node is
\* selected in every state, and with multi select at most one node is selected
\* after any call made with newValue = true and clearSelection = true.
C12_AtMostOneSelected ==
    FlatList =>
        /\ ~rowSelectionMulti => Cardinality(SelectedNodes) <= 1
        /\ rowSelectionMulti /\ SelectAndClear => Cardinality(SelectedNodes) <= 1

\* C12 as amended: in a flat list, with single select at most one node is
\* selected in every state, and with multi select at most one node is selected
\* after a call with newValue = true and clearSelection = true that did not run
\* the range algorithm; the selected node is then the node of the call.
C12_AtMostOneSelectedUnlessRange ==
    FlatList =>
        /\ ~rowSelectionMulti => Cardinality(SelectedNodes) <= 1
        /\ rowSelectionMulti /\ SelectAndClear /\ TopLevelNoRange =>
               SelectedNodes = {ActsOn(call.node)}

\* C12 witness: with single select, a call without clearSelection selected a
\* row while another row was selected, and the other row was deselected.
C12_Witness ==
    /\ FlatList /\ ~rowSelectionMulti
    /\ TopLevelNoRange
    /\ call.params.newValue /\ ~call.params.clearSelection
    /\ \E m \in Rows \ {call.node} : before.selected[m] = SelTrue
    /\ SelectedNodes = {call.node}
    /\ call.ret = 2

\* C12 witness for multi select: select and clear left one of three selected.
C12_WitnessMulti ==
    /\ FlatList /\ rowSelectionMulti
    /\ SelectAndClear /\ TopLevelNoRange
    /\ Cardinality({m \in Rows : before.selected[m] = SelTrue}) >= 3
    /\ SelectedNodes = {call.node}

\* The nodes reached from g through childrenAfterFilter lists alone: the rows
\* below g that pass the filter at every depth.
RECURSIVE FilteredBelow(_)
FilteredBelow(g) ==
    IF childrenAfterFilter[g] = Missing THEN {}
    ELSE LET children == {childrenAfterFilter[g][i] : i \in 1..Len(childrenAfterFilter[g])}
         IN  children \cup UNION {FilteredBelow(m) : m \in children}

\* The returned call propagated to the filtered children of a group and
\* cleared no other node.
PropagatedFiltered ==
    /\ TopLevelNoRange
    /\ groupSelectsChildren
    /\ call.params.groupSelectsFiltered
    /\ group[ActsOn(call.node)]
    /\ ~(call.params.newValue /\ (call.params.clearSelection \/ ~rowSelectionMulti))

\* C13: with group selects children on and groupSelectsFiltered = true, a call
\* on a group G changes the selected value of a row below G only if every node
\* on the path from G down to the row is in its parent's childrenAfterFilter.
C13_FilteredOutRowsUntouched ==
    PropagatedFiltered =>
        \A n \in Rows :
            ActsOn(call.node) \in AncestorsOf(n) /\ ~group[n]
                /\ selected[n] # before.selected[n]
            => n \in FilteredBelow(ActsOn(call.node))

\* The direct children of a group disagree: its aggregate is undefined.
ChildrenDisagree(g) == AggregateOfChildren(selected, g) = Mixed

\* At least one direct child is selected and at least one is not selected.
OneSelectedOneNot(g) ==
    /\ childrenAfterGroup[g] # Missing
    /\ \E i \in 1..Len(childrenAfterGroup[g]) :
           isSelected(selected, childrenAfterGroup[g][i]) = SelTrue
    /\ \E i \in 1..Len(childrenAfterGroup[g]) :
           isSelected(selected, childrenAfterGroup[g][i]) = SelFalse

\* C19: a node's selected value is undefined only if the node is a group,
\* group selects children is on, and at least one of its direct children is
\* selected and at least one is not selected.
C19_UndefinedOnlyWhenChildrenDisagree ==
    \A n \in Nodes :
        selected[n] = Mixed =>
            group[n] /\ groupSelectsChildren /\ OneSelectedOneNot(n)

\* C19, part: a node that is not a group, and any node when group selects
\* children is off, is always true or false.
C19_LeavesAndPlainGroupsDecided ==
    \A n \in Nodes :
        ~group[n] \/ ~groupSelectsChildren => selected[n] \in {SelTrue, SelFalse}

\* C19, with a child that is itself undefined counted as disagreement.
C19_UndefinedOnlyWhenAggregateUndefined ==
    \A n \in Nodes :
        selected[n] = Mixed =>
            group[n] /\ groupSelectsChildren /\ ChildrenDisagree(n)

\* An operation on the node has returned.
NodeReturned == nodeCall.op # "none"

\* The local and the global events of a log, of one type or of any.
LocalEvents(log) == {i \in 1..Len(log) : log[i].scope = "local"}
GlobalEvents(log) == {i \in 1..Len(log) : log[i].scope = "global"}
LocalEventsOfType(log, type) == {i \in LocalEvents(log) : log[i].type = type}
GlobalEventsOfType(log, type) == {i \in GlobalEvents(log) : log[i].type = type}

\* The setters, the field each one assigns and the local event it dispatches.
Setters == {"setRowTop", "setRowIndex", "setFirstChild", "setLastChild", "setChildIndex",
            "setAllChildrenCount", "setUiLevel", "setExpanded", "setRowHeight"}

FieldOf(n, op) ==
    CASE op = "setRowTop" -> n.rowTop
      [] op = "setRowIndex" -> n.rowIndex
      [] op = "setFirstChild" -> n.firstChild
      [] op = "setLastChild" -> n.lastChild
      [] op = "setChildIndex" -> n.childIndex
      [] op = "setAllChildrenCount" -> n.allChildrenCount
      [] op = "setUiLevel" -> n.uiLevel
      [] op = "setExpanded" -> n.expanded
      [] op = "setRowHeight" -> n.rowHeight

EventOf(op) ==
    CASE op = "setRowTop" -> RowNode.EVENT_TOP_CHANGED
      [] op = "setRowIndex" -> RowNode.EVENT_ROW_INDEX_CHANGED
      [] op = "setFirstChild" -> RowNode.EVENT_FIRST_CHILD_CHANGED
      [] op = "setLastChild" -> RowNode.EVENT_LAST_CHILD_CHANGED
      [] op = "setChildIndex" -> RowNode.EVENT_CHILD_INDEX_CHANGED
      [] op = "setAllChildrenCount" -> RowNode.EVENT_ALL_CHILDREN_COUNT_CELL_CHANGED
      [] op = "setUiLevel" -> RowNode.EVENT_UI_LEVEL_CHANGED
      [] op = "setExpanded" -> RowNode.EVENT_EXPANDED_CHANGED
      [] op = "setRowHeight" -> RowNode.EVENT_HEIGHT_CHANGED

\* A setter returned that was called with the value its field already had.
EqualArgument ==
    /\ nodeCall.op \in Setters
    /\ nodeCall.args[1] = FieldOf(nodeBefore, nodeCall.op)

\* C14: a call of setRowTop, setRowIndex, setFirstChild, setLastChild,
\* setChildIndex, setAllChildrenCount, setUiLevel or setExpanded with the
\* field's current value leaves the node as it was and dispatches no local and
\* no global event, with or without an eventService; setRowHeight dispatches
\* height changed on every call when there is an eventService.
C14_EqualArgumentIsNoOp ==
    /\ EqualArgument /\ nodeCall.op # "setRowHeight" =>
           node = nodeBefore /\ Len(nodeCall.log) = 0
    /\ nodeCall.op = "setRowHeight" /\ nodeBefore.eventService =>
           /\ Len(nodeCall.log) = 1
           /\ LocalEventsOfType(nodeCall.log, RowNode.EVENT_HEIGHT_CHANGED) = {1}

\* C14, the setters that do compare: all of the above except setRowIndex.
C14_ComparingSettersAreNoOps ==
    /\ EqualArgument /\ nodeCall.op \notin {"setRowHeight", "setRowIndex"} =>
           node = nodeBefore /\ Len(nodeCall.log) = 0
    /\ nodeCall.op \in {"setRowHeight", "setRowIndex"} /\ nodeBefore.eventService =>
           /\ Len(nodeCall.log) = 1
           /\ LocalEventsOfType(nodeCall.log, EventOf(nodeCall.op)) = {1}

\* The data updates, each dispatching data changed.
DataUpdates == {"setData", "updateData", "setDataAndId"}

\* The returned operation changed the value of the field it is about.
ValueChanged ==
    \/ nodeCall.op \in Setters /\ FieldOf(node, nodeCall.op) # FieldOf(nodeBefore, nodeCall.op)
    \/ nodeCall.op = "selectThisNode" /\ node.selected # nodeBefore.selected

\* The one local event of the returned operation.
LocalEventOfCall ==
    IF nodeCall.op \in Setters THEN EventOf(nodeCall.op)
    ELSE IF nodeCall.op = "selectThisNode" THEN RowNode.EVENT_ROW_SELECTED
    ELSE RowNode.EVENT_DATA_CHANGED

\* C15: a node dispatches a local event only if its eventService exists; only
\* addEventListener creates the eventService (a new node has none, and it is
\* never removed), so no local event precedes the first addEventListener; and
\* once it exists, every setter that changes its field, every data update
\* (setData, updateData, setDataAndId) and every change of selected through
\* selectThisNode dispatches its own local event exactly once and no other.
C15_LocalEventsIffRegistry ==
    /\ LocalEvents(nodeCall.log) # {} => nodeBefore.eventService
    /\ node.eventService # nodeBefore.eventService =>
           nodeCall.op = "addEventListener" /\ node.eventService
    /\ calls = 0 => ~node.eventService
    /\ nodeBefore.eventService /\ (ValueChanged \/ nodeCall.op \in DataUpdates) =>
           /\ Cardinality(LocalEvents(nodeCall.log)) = 1
           /\ \A i \in LocalEvents(nodeCall.log) : nodeCall.log[i].type = LocalEventOfCall

\* C15 witness: on a node with an eventService selectThisNode changed selected
\* and dispatched the local row selected event before the global one.
C15_Witness ==
    /\ nodeBefore.eventService
    /\ nodeCall.op = "selectThisNode"
    /\ node.selected = SelTrue /\ nodeBefore.selected = SelFalse
    /\ LocalEventsOfType(nodeCall.log, RowNode.EVENT_ROW_SELECTED) = {1}
    /\ GlobalEventsOfType(nodeCall.log, Events.EVENT_ROW_SELECTED) = {2}

\* C15 witness without an eventService: a setter changed its field, a data
\* update replaced the data, and nothing was dispatched locally.
C15_WitnessNoRegistry ==
    /\ ~node.eventService
    /\ nodeCall.op = "setDataAndId"
    /\ node.data # nodeBefore.data
    /\ nodeBefore.rowTop # Undefined
    /\ LocalEvents(nodeCall.log) = {}

\* The cell changed events of a log for one column.
CellChangedFor(log, colId) ==
    {i \in LocalEventsOfType(log, RowNode.EVENT_CELL_CHANGED) : log[i].event.column = colId}

\* C16: setAggData(newAggData) replaces aggData and changes nothing else; on a
\* node with an eventService it dispatches exactly one cell changed event for
\* each column key of the old or of the new aggregate data and nothing else,
\* and on a node without one it dispatches nothing; setAggData({a:1}) after
\* setAggData({a:1, b:2}) dispatches exactly two cell changed events.
C16_SetAggDataNotifiesUnionOfKeys ==
    nodeCall.op = "setAggData" =>
        LET newAggData == nodeCall.args[1]
            colIds == KeysOf(nodeBefore.aggData) \cup KeysOf(newAggData)
            fired == LocalEventsOfType(nodeCall.log, RowNode.EVENT_CELL_CHANGED)
        IN  /\ node = [nodeBefore EXCEPT !.aggData = newAggData]
            /\ IF nodeBefore.eventService
               THEN /\ \A colId \in colIds : Cardinality(CellChangedFor(nodeCall.log, colId)) = 1
                    /\ Cardinality(fired) = Cardinality(colIds)
                    /\ Len(nodeCall.log) = Cardinality(colIds)
               ELSE Len(nodeCall.log) = 0
            /\ nodeBefore.eventService /\ nodeBefore.aggData = {<<"a", 1>>, <<"b", 2>>}
                   /\ newAggData = {<<"a", 1>>}
               => Cardinality(fired) = 2

\* C16 witness: setAggData({a:1}) on a node whose aggregate data is {a:1, b:2}
\* and that has an eventService: cell changed for a and for the removed b.
C16_Witness ==
    /\ nodeCall.op = "setAggData"
    /\ nodeBefore.eventService
    /\ nodeBefore.aggData = {<<"a", 1>>, <<"b", 2>>}
    /\ node.aggData = {<<"a", 1>>}
    /\ Cardinality(CellChangedFor(nodeCall.log, "a")) = 1
    /\ Cardinality(CellChangedFor(nodeCall.log, "b")) = 1
    /\ Len(nodeCall.log) = 2

\* The calls of selectionController.syncInRowNode in a log.
SyncCalls(log) == {i \in 1..Len(log) : log[i].scope = "call" /\ log[i].type = "syncInRowNode"}

\* The id setId gives the node once it has the data.
IdAfter(data, newId) ==
    IF getRowNodeIdFunc
    THEN (IF data # Undefined THEN getRowNodeId(data) ELSE Undefined)
    ELSE newId

\* The members of every children list of the tree.
InSomeChildrenList ==
    UNION {{childrenAfterGroup[n][i] : i \in 1..Len(childrenAfterGroup[n])}
           \cup {childrenAfterFilter[n][i] : i \in 1..Len(childrenAfterFilter[n])}
           \cup {childrenAfterSort[n][i] : i \in 1..Len(childrenAfterSort[n])} : n \in Nodes}

\* d is a daemon of the node as it was on entry.
DaemonOf(d, entered) ==
    /\ d.id = entered.id
    /\ d.data = entered.data
    /\ d.selected = entered.selected
    /\ d.level = entered.level
    /\ d.daemon = SelTrue
    /\ d.parent = Undefined
    /\ d.ref # entered.ref
    /\ d.ref \notin InSomeChildrenList
    /\ ~d.eventService

\* C17: setDataAndId(data, id) on a node that has an id creates a daemon with
\* the id, data, selected value and level the node had on entry, daemon = true,
\* no parent and in no children list; syncInRowNode(liveNode, daemon) is called
\* once, when the live node has its new data and id, and before the local data
\* changed event; on a node without an id syncInRowNode receives null.
C17_DaemonSnapshotThenSync ==
    nodeCall.op = "setDataAndId" =>
        LET data == nodeCall.args[1]
            newId == nodeCall.args[2]
            log == nodeCall.log
        IN  /\ SyncCalls(log) = {1}
            /\ log[1].event.node.data = data
            /\ log[1].event.node.id = IdAfter(data, newId)
            /\ IF nodeBefore.id # Undefined
               THEN /\ Len(log[1].event.oldNode) = 1
                    /\ DaemonOf(log[1].event.oldNode[1], nodeBefore)
               ELSE log[1].event.oldNode = Null
            /\ \A i \in LocalEvents(log) : i > 1 /\ log[i].type = RowNode.EVENT_DATA_CHANGED
            /\ Cardinality(LocalEvents(log)) = (IF nodeBefore.eventService THEN 1 ELSE 0)
            /\ node.data = data
            /\ node.id = IdAfter(data, newId)

\* C17 witness: a node with id 5, data and listeners is given other data and
\* id 7; the daemon keeps the old ones and data changed follows the sync.
C17_Witness ==
    /\ nodeCall.op = "setDataAndId"
    /\ nodeBefore.eventService
    /\ nodeBefore.id = 5 /\ node.id = 7
    /\ nodeBefore.data # Undefined /\ node.data \notin {Undefined, nodeBefore.data}
    /\ Len(nodeCall.log) = 2
    /\ nodeCall.log[1].event.oldNode[1].id = 5
    /\ nodeCall.log[1].event.node.id = 7

\* C17 witness on a node without an id: no daemon.
C17_WitnessNoId ==
    /\ nodeCall.op = "setDataAndId"
    /\ nodeBefore.id = Undefined
    /\ node.id # Undefined
    /\ nodeCall.log[1].event.oldNode = Null

\* setDataAndId returned on a selected node that had an id and has another now.
NewIdOnSelectedNode ==
    /\ nodeCall.op = "setDataAndId"
    /\ nodeBefore.selected = SelTrue
    /\ nodeBefore.id # Undefined
    /\ node.id # nodeBefore.id

\* C18: after setDataAndId with a new id on a selected node the daemon is
\* selected, and the live node is not selected unless syncInRowNode set it
\* selected.
C18_LiveNodeUnselectedAfterNewId ==
    NewIdOnSelectedNode =>
        /\ nodeCall.log[1].event.oldNode[1].selected = SelTrue
        /\ nodeCall.args[3] # SelTrue => node.selected = SelFalse

\* C18, the part about the daemon, and what rowNode.ts does to the live node:
\* its selected value is the one syncInRowNode set, else the one it had.
C18_LiveNodeSelectedAsSyncLeftIt ==
    NewIdOnSelectedNode =>
        /\ nodeCall.log[1].event.oldNode[1].selected = SelTrue
        /\ node.selected = (IF nodeCall.args[3] = "keep" THEN nodeBefore.selected
                            ELSE nodeCall.args[3])

\* C20: setExpanded with a value other than the current one assigns expanded
\* and dispatches the global row group opened event exactly once, with or
\* without an eventService, as the last thing it does: after the local
\* expanded changed event, which is dispatched only if there is an
\* eventService; with the current value it dispatches neither.
C20_SetExpandedLocalThenGlobal ==
    nodeCall.op = "setExpanded" =>
        LET log == nodeCall.log
            opened == GlobalEventsOfType(log, Events.EVENT_ROW_GROUP_OPENED)
            changed == LocalEventsOfType(log, RowNode.EVENT_EXPANDED_CHANGED)
        IN  IF nodeCall.args[1] # nodeBefore.expanded
            THEN /\ node = [nodeBefore EXCEPT !.expanded = nodeCall.args[1]]
                 /\ opened = {Len(log)}
                 /\ log[Len(log)].event.node = node.ref
                 /\ IF nodeBefore.eventService
                    THEN changed = {1} /\ Len(log) = 2
                    ELSE changed = {} /\ Len(log) = 1
            ELSE node = nodeBefore /\ Len(log) = 0

\* C20 witness: a node with listeners is collapsed after it was expanded:
\* expanded changed, then row group opened.
C20_Witness ==
    /\ nodeCall.op = "setExpanded"
    /\ nodeBefore.eventService
    /\ nodeBefore.expanded = SelTrue /\ node.expanded = SelFalse
    /\ nodeCall.log[1].scope = "local" /\ nodeCall.log[2].scope = "global"

\* C20 witnesses without listeners, and with the current value.
C20_WitnessNoRegistry ==
    /\ nodeCall.op = "setExpanded"
    /\ ~nodeBefore.eventService
    /\ node.expanded # nodeBefore.expanded
    /\ Len(nodeCall.log) = 1

C20_WitnessUnchanged ==
    /\ nodeCall.op = "setExpanded"
    /\ nodeBefore.eventService
    /\ nodeCall.args[1] = nodeBefore.expanded
    /\ Len(nodeCall.log) = 0

\* The returned call was made with tailingNodeInSequence = true.
TailCall == Returned /\ call.params.tailingNodeInSequence

\* The node the call acted on and the nodes below it.
SubtreeOfCall == {n \in Nodes : n = ActsOn(call.node) \/ ActsOn(call.node) \in AncestorsOf(n)}

\* No group above the node of the call was recomputed: with groups that select
\* their children, each ancestor's selected value is as on entry.
AncestorsNotRecomputed ==
    groupSelectsChildren =>
        \A a \in AncestorsOf(ActsOn(call.node)) : selected[a] = before.selected[a]

\* The call asked nothing of the selection controller: no clearOtherNodes, no
\* setLastSelectedNode, and the anchor is as on entry.
RegistryUntouched ==
    /\ EventsOfType(call.log, "clearOtherNodes") = {}
    /\ EventsOfType(call.log, "setLastSelectedNode") = {}
    /\ lastSelectedNode = before.lastSelectedNode

\* C21 as stated: a call with tailingNodeInSequence = true, whatever the other
\* params, never calls clearOtherNodes or setLastSelectedNode, never recomputes
\* an ancestor group and never dispatches selection changed.
C21_TailCallHasNoSideEffects ==
    TailCall =>
        /\ RegistryUntouched
        /\ AncestorsNotRecomputed
        /\ EventsOfType(call.log, "selectionChanged") = {}

\* C21 as amended: a call with tailingNodeInSequence = true never calls
\* clearOtherNodes or setLastSelectedNode and leaves the anchor alone, whatever
\* the other params; unless it runs the range algorithm it dispatches no
\* selection changed and changes no node outside this node and its descendants,
\* so no ancestor group is recomputed; when it runs the range algorithm it
\* dispatches selection changed once, last, as a user action does.
C21_TailCallWithoutRangeHasNoSideEffects ==
    TailCall =>
        /\ RegistryUntouched
        /\ IF RangeRan
           THEN EventsOfType(call.log, "selectionChanged") = {Len(call.log)}
                    /\ Len(call.log) > 0
           ELSE /\ EventsOfType(call.log, "selectionChanged") = {}
                /\ AncestorsNotRecomputed
                /\ \A n \in Nodes \ SubtreeOfCall : selected[n] = before.selected[n]

\* C21 witness: a tailing call with newValue = true and clearSelection = true
\* selected a row below a group that selects its children, while another
\* selected row stayed selected, the group above was left as it was and no
\* longer agrees with its children, and the anchor stayed on another node.
C21_Witness ==
    /\ TailCall /\ ~RangeRan /\ ~Rejected
    /\ call.params.newValue /\ call.params.clearSelection
    /\ call.ret >= 1
    /\ groupSelectsChildren
    /\ \E m \in Rows \ SubtreeOfCall :
           ~group[m] /\ before.selected[m] = SelTrue /\ selected[m] = SelTrue
    /\ \E a \in AncestorsOf(ActsOn(call.node)) \cap GroupNodes :
           selected[a] # AggregateOfChildren(selected, a)
    /\ lastSelectedNode \notin {Undefined, ActsOn(call.node)}

\* C21, the range case: a tailing call ran the range algorithm, changed rows
\* and groups above them, and dispatched selection changed.
C21_WitnessRange ==
    /\ TailCall /\ RangeRan
    /\ call.ret >= 1
    /\ ~AncestorsNotRecomputed
    /\ EventsOfType(call.log, "selectionChanged") # {}

\* calculateSelectedFromChildren() returned to its caller.
Calculated == pc = "calculated"

\* What isSelected() answered on entry for the children of n, one answer per
\* child; none without a children list.
ChildStates(n) ==
    IF childrenAfterGroup[n] = Missing THEN <<>>
    ELSE [i \in 1..Len(childrenAfterGroup[n]) |->
             isSelected(before.selected, childrenAfterGroup[n][i])]

SomeChild(n, value) == \E i \in 1..Len(ChildStates(n)) : ChildStates(n)[i] = value

\* The value the children of n call for.
CalledForByChildren(n) ==
    IF SomeChild(n, Mixed) THEN Mixed
    ELSE IF SomeChild(n, SelTrue) /\ ~SomeChild(n, SelFalse) THEN SelTrue
    ELSE IF SomeChild(n, SelFalse) /\ ~SomeChild(n, SelTrue) THEN SelFalse
    ELSE Mixed

\* C22: calculateSelectedFromChildren sets the node's selected value, from the
\* isSelected() values of its childrenAfterGroup, to undefined if any child is
\* mixed, else true if some child is selected and none deselected, else false
\* if some is deselected and none selected, else (both kinds, no children, no
\* children list) undefined; it touches no other node and not the anchor, and
\* dispatches one row selected event for the node if the value changed, none
\* otherwise.
C22_CalculateSelectedFromChildren ==
    Calculated =>
        /\ selected[call.node] = CalledForByChildren(call.node)
        /\ \A m \in Nodes \ {call.node} : selected[m] = before.selected[m]
        /\ lastSelectedNode = before.lastSelectedNode
        /\ call.log = IF before.selected[call.node] = CalledForByChildren(call.node)
                      THEN <<>>
                      ELSE <<RowSelectedEvent(call.node, CalledForByChildren(call.node))>>

\* C22 witness: a selected group with a selected and a mixed child, and no
\* deselected one, became undefined and dispatched row selected.
C22_Witness ==
    /\ Calculated
    /\ SomeChild(call.node, Mixed) /\ SomeChild(call.node, SelTrue)
    /\ ~SomeChild(call.node, SelFalse)
    /\ before.selected[call.node] = SelTrue
    /\ selected[call.node] = Mixed
    /\ Len(call.log) = 1

\* C22, the other cases: a group with a selected and a deselected child became
\* undefined; an unchanged value dispatched nothing; a group without children
\* and a row without a children list became undefined.
C22_WitnessBothKinds ==
    /\ Calculated
    /\ SomeChild(call.node, SelTrue) /\ SomeChild(call.node, SelFalse)
    /\ ~SomeChild(call.node, Mixed)
    /\ before.selected[call.node] # Mixed /\ selected[call.node] = Mixed

C22_WitnessUnchanged ==
    /\ Calculated
    /\ SomeChild(call.node, SelTrue) /\ ~SomeChild(call.node, SelFalse)
    /\ before.selected[call.node] = SelTrue /\ selected[call.node] = SelTrue
    /\ call.log = <<>>

C22_WitnessNoChildren ==
    /\ Calculated
    /\ childrenAfterGroup[call.node] = <<>>
    /\ before.selected[call.node] = SelTrue /\ selected[call.node] = Mixed

C22_WitnessNoChildrenList ==
    /\ Calculated
    /\ childrenAfterGroup[call.node] = Missing
    /\ before.selected[call.node] = SelTrue /\ selected[call.node] = Mixed

C22_WitnessDeselected ==
    /\ Calculated
    /\ SomeChild(call.node, SelFalse) /\ ~SomeChild(call.node, SelTrue)
    /\ ~SomeChild(call.node, Mixed)
    /\ before.selected[call.node] = SelTrue /\ selected[call.node] = SelFalse

\* The returned call ran the range algorithm between two traversed endpoints
\* with groups that select their children.
RangeWithGroups == RangeRan /\ groupSelectsChildren /\ EndpointsTraversed

\* The row selected events of the returned call on group nodes, and on others.
GroupEvents == {i \in EventsOfType(call.log, "rowSelected") : group[call.log[i].node]}
RowEvents == {i \in EventsOfType(call.log, "rowSelected") : ~group[call.log[i].node]}

\* The traversal assigned no group: a group is only written by the recompute
\* that follows the traversal, after every row the traversal changed.
GroupsWrittenAfterRows == \A i \in RowEvents : \A j \in GroupEvents : i < j

\* A traversed row that is no group is selected iff it lies in the range or
\* below the endpoint the traversal reached last.
RowsFollowRange ==
    \A n \in Traversed : ~group[n] =>
        (selected[n] = SelTrue) = (Between(n) \/ BelowLastEndpoint(n))

\* C23: in a range selection with group selects children on, the traversal
\* never assigns a group node directly, a node that is no group is selected iff
\* it lies between the two endpoints inclusive or below the endpoint reached
\* last, and on return every group node of the tree, the root included, has the
\* three-valued aggregate of its direct children.
C23_RangeRecomputesEveryGroup ==
    RangeWithGroups =>
        /\ GroupsWrittenAfterRows
        /\ RowsFollowRange
        /\ \A g \in GroupNodes : selected[g] = AggregateOfChildren(selected, g)

\* C23 below the root, which does hold: the same, for every group node other than the root node.
C23_RangeRecomputesGroupsBelowRoot ==
    RangeWithGroups =>
        /\ GroupsWrittenAfterRows
        /\ RowsFollowRange
        /\ \A g \in GroupNodes \ {Root} : selected[g] = AggregateOfChildren(selected, g)

\* What the returned call would have left, returned and dispatched from the
\* same state had it been made with this newValue and this clearSelection.
SameCallWith(newValue, clearSelection) ==
    setSelectedParams([selected |-> before.selected,
                       lastSelectedNode |-> before.lastSelectedNode,
                       log |-> <<>>],
                      call.node,
                      [call.params EXCEPT !.newValue = newValue,
                                          !.clearSelection = clearSelection])

\* What the caller of the returned call has: the state left and the count.
Observed ==
    [st |-> [selected |-> selected, lastSelectedNode |-> lastSelectedNode, log |-> call.log],
     ret |-> call.ret]

\* C24: when the range algorithm runs, two calls from the same state that
\* differ only in newValue and clearSelection leave the same selected values
\* and the same anchor, return the same count and dispatch the same events, and
\* neither calls clearOtherNodes.
C24_RangeIgnoresNewValueAndClearSelection ==
    RangeRan =>
        /\ \A newValue \in BOOLEAN : \A clearSelection \in BOOLEAN :
               SameCallWith(newValue, clearSelection) = Observed
        /\ EventsOfType(call.log, "clearOtherNodes") = {}

\* C24 witness: a range selection called with newValue = false and
\* clearSelection = true selected a row, and a selected row absent from the
\* traversal stayed selected.
C24_Witness ==
    /\ RangeRan
    /\ ~call.params.newValue /\ call.params.clearSelection
    /\ call.ret >= 1
    /\ \E n \in Rows : before.selected[n] = SelFalse /\ selected[n] = SelTrue
    /\ \E m \in Rows \ Traversed : before.selected[m] = SelTrue /\ selected[m] = SelTrue

\* What getLastSelectedNode() answers while the i-th entry of the returned
\* call's log is dispatched: the node of the last setLastSelectedNode before it,
\* or the anchor on entry.
AnchorAt(i) ==
    LET sets == {j \in EventsOfType(call.log, "setLastSelectedNode") : j < i}
    IN  IF sets = {} THEN before.lastSelectedNode
        ELSE call.log[CHOOSE j \in sets : \A k \in sets : k <= j].node

\* The returned call is a user action with newValue = true that did not run the
\* range algorithm and changed the selected value of at least one node.
SelectedSomething == RecordsAnchor /\ selected # before.selected

\* C25: a user action with newValue = true that is not a range selection and
\* changes at least one node dispatches selection changed before it calls
\* setLastSelectedNode(this): the listener of that event still observes the
\* previous anchor, and the anchor is this node once the call has returned.
C25_SelectionChangedBeforeAnchor ==
    SelectedSomething =>
        /\ EventsOfType(call.log, "selectionChanged") # {}
        /\ \A i \in EventsOfType(call.log, "selectionChanged") :
               /\ AnchorAt(i) = before.lastSelectedNode
               /\ \A j \in EventsOfType(call.log, "setLastSelectedNode") : i < j
        /\ EventsOfType(call.log, "setLastSelectedNode") = {Len(call.log)}
        /\ lastSelectedNode = ActsOn(call.node)

\* C25 where the count is a number, which does hold: the same, for a call whose count is not NaN
\* (no children list the call propagates through is missing).
C25_SelectionChangedBeforeAnchorWhenCounted ==
    SelectedSomething /\ call.ret # NaN =>
        /\ Cardinality(EventsOfType(call.log, "selectionChanged")) = 1
        /\ \A i \in EventsOfType(call.log, "selectionChanged") :
               /\ AnchorAt(i) = before.lastSelectedNode
               /\ \A j \in EventsOfType(call.log, "setLastSelectedNode") : i < j
        /\ EventsOfType(call.log, "setLastSelectedNode") = {Len(call.log)}
        /\ lastSelectedNode = ActsOn(call.node)

\* The case C25 is about: a call moved the anchor from another node to this
\* one after its listener was told of the change.
C25_AnchorMovedAfterEvent ==
    /\ SelectedSomething /\ call.ret # NaN
    /\ before.lastSelectedNode \notin {Undefined, ActsOn(call.node)}
    /\ lastSelectedNode = ActsOn(call.node)
    /\ EventsOfType(call.log, "selectionChanged") = {Len(call.log) - 1}

====
